---------------------------- MODULE Spec2Model ----------------------------
(***************************************************************************)
(* A model of protoc-gen-webviewrpc: the protoc plugin of src/main.go and  *)
(* its second build src/unnamed/part_002, and of the chunking contract     *)
(* that the wire schema src/unnamed/part_001 declares.                     *)
(*                                                                         *)
(* Strings.  A Go string is a sequence of atoms.  An atom is a TLA+ string *)
(* that is either one delimiter character (".", "/", ",", " ", "\n") or a  *)
(* run of characters holding none of them.  Package identifiers, on which  *)
(* strings.Title works letter by letter, are sequences of single           *)
(* characters.                                                             *)
(***************************************************************************)
EXTENDS Integers, Sequences, FiniteSets, TLC

VARIABLES
    build,       \* which main package was compiled
    stdin,       \* what os.Stdin delivers: [kind, req]
    pc,          \* position of main()
    exitCode,    \* process exit status
    req,         \* the decoded CodeGeneratorRequest
    gen,         \* genCSClient, genCSServer, genJSClient, genJSServer
    resp,        \* the CodeGeneratorResponse being assembled
    fi,          \* index of the range loop over req.ProtoFile
    si,          \* index of the range loop over fileDesc.GetService()
    svcData,     \* the serviceInfo of the current service
    stdout,      \* what was written to os.Stdout
    renderLog,   \* history of renderTemplate calls and their results
    payload,     \* chunking: the sender's byte payload P
    chunkSize,   \* chunking: the chunk size C
    phase,       \* chunking: "idle", "sent", "complete"
    inflight,    \* chunking: envelopes sent and not yet delivered
    buffer,      \* chunking: the receiver's reassembly buffers, by chunkSetId
    reassembled, \* chunking: the receiver's result for the chunk set
    arrivals     \* chunking: the chunk indices in their order of arrival

genVars == <<build, stdin, pc, exitCode, req, gen, resp, fi, si, svcData,
             stdout, renderLog>>
chunkVars == <<payload, chunkSize, phase, inflight, buffer, reassembled, arrivals>>
vars == <<genVars, chunkVars>>

-----------------------------------------------------------------------------
(* Bounds *)

MaxFiles == 2
MaxFailures == 2
MaxParamLen == 3
MaxPkgLen == 3
MaxTypeLen == 3
MaxMethods == 2
MaxPayload == 5
MaxChunk == 3

-----------------------------------------------------------------------------
(* Sequence helpers *)

Range(s) == {s[i] : i \in DOMAIN s}

SeqsUpTo(S, n) == UNION {[1..k -> S] : k \in 0..n}

Last(s) == s[Len(s)]


-----------------------------------------------------------------------------
(* The Go library functions the plugin calls *)

\* strings.HasPrefix, strings.TrimPrefix
HasPrefix(s, p) == Len(p) <= Len(s) /\ SubSeq(s, 1, Len(p)) = p

TrimPrefix(s, p) == IF HasPrefix(s, p) THEN SubSeq(s, Len(p) + 1, Len(s)) ELSE s

\* strings.HasSuffix, strings.TrimSuffix
HasSuffix(s, p) == Len(p) <= Len(s) /\ SubSeq(s, Len(s) - Len(p) + 1, Len(s)) = p

TrimSuffix(s, p) == IF HasSuffix(s, p) THEN SubSeq(s, 1, Len(s) - Len(p)) ELSE s

\* strings.Split(s, sep) for a one-character separator: always at least one part
RECURSIVE Split(_, _)
Split(s, sep) ==
    IF \A i \in DOMAIN s : s[i] # sep
    THEN <<s>>
    ELSE LET i == CHOOSE k \in DOMAIN s : s[k] = sep /\ \A j \in 1..(k-1) : s[j] # sep
         IN  <<SubSeq(s, 1, i - 1)>> \o Split(SubSeq(s, i + 1, Len(s)), sep)

\* unicode.IsSpace on the atoms of the model
IsSpace(a) == a \in {" ", "\t"}

\* strings.TrimSpace
RECURSIVE TrimLeft(_)
TrimLeft(s) == IF s # <<>> /\ IsSpace(s[1]) THEN TrimLeft(Tail(s)) ELSE s

RECURSIVE TrimRight(_)
TrimRight(s) ==
    IF s # <<>> /\ IsSpace(s[Len(s)]) THEN TrimRight(SubSeq(s, 1, Len(s) - 1)) ELSE s

TrimSpace(s) == TrimRight(TrimLeft(s))

\* filepath.Ext: the suffix from the last "." of the last path element, or ""
Ext(path) ==
    LET dots == {i \in DOMAIN path :
                    /\ path[i] = "."
                    /\ \A j \in (i+1)..Len(path) : path[j] \notin {".", "/"}}
    IN  IF dots = {} THEN <<>>
        ELSE LET i == CHOOSE k \in dots : TRUE IN SubSeq(path, i, Len(path))

\* strings.Title, letter by letter.  isSeparator: letters, digits and the
\* underscore do not separate words, every other ASCII character does.
LowerLetters == {"a", "b"}
UpperLetters == {"A", "B"}
DigitChars == {"1"}

ToTitle(c) == CASE c = "a" -> "A" [] c = "b" -> "B" [] OTHER -> c

isSeparator(c) == c \notin (LowerLetters \cup UpperLetters \cup DigitChars \cup {"_"})

Title(s) ==
    [i \in 1..Len(s) |->
        IF isSeparator(IF i = 1 THEN " " ELSE s[i-1]) THEN ToTitle(s[i]) ELSE s[i]]

-----------------------------------------------------------------------------
(* The plugin's helpers *)

\* a variant that forgets strings.TrimSpace
parseGeneratorParamsNoTrim(paramStr) ==
    IF paramStr = <<>> THEN [k \in {} |-> "true"]
    ELSE LET parts == Split(paramStr, ",")
             keys == {parts[i] : i \in DOMAIN parts} \ {<<>>}
         IN  [k \in keys |-> "true"]

\* parseGeneratorParams: the map, as a function from its keys to "true"
parseGeneratorParams(paramStr) ==
    IF paramStr = <<>> THEN [k \in {} |-> "true"]
    ELSE LET parts == Split(paramStr, ",")
             keys == {TrimSpace(parts[i]) : i \in DOMAIN parts} \ {<<>>}
         IN  [k \in keys |-> "true"]

\* params[key] of a Go map[string]string: "" for a missing key
MapGet(m, key) == IF <<key>> \in DOMAIN m THEN m[<<key>>] ELSE ""

\* a variant that lets every schema file of the request through
containsAny(arr, s) == TRUE

\* contains(req.FileToGenerate, filename); the list is kept as its set
contains(arr, s) == s \in arr

\* shortTypeName of src/main.go
shortTypeNameRoot(full) == TrimPrefix(full, <<".">>)

\* shortTypeName of src/unnamed/part_002
shortTypeNameLast(full) == Last(Split(TrimPrefix(full, <<".">>), "."))

shortTypeName(b, full) ==
    IF b = "main.go" THEN shortTypeNameRoot(full) ELSE shortTypeNameLast(full)

\* fd.GetOptions().GetCsharpNamespace(): "" for nil options or an unset field
GetCsharpNamespace(opts) == IF opts.present THEN opts.csharp_namespace ELSE <<>>

\* a variant that looks at the package before the explicit option
getCsharpNamespacePackageFirst(fd) ==
    IF fd.Package # <<>> THEN Title(fd.Package)
    ELSE IF GetCsharpNamespace(fd.Options) # <<>> THEN GetCsharpNamespace(fd.Options)
    ELSE <<"DefaultNamespace">>

getCsharpNamespace(fd) ==
    IF GetCsharpNamespace(fd.Options) # <<>> THEN GetCsharpNamespace(fd.Options)
    ELSE IF fd.Package = <<>> THEN <<"DefaultNamespace">>
    ELSE Title(fd.Package)

collectAllMessages(fd) == fd.MessageType

\* a variant that skips a method equal to an earlier one
BuildMethodsDedup(b, decls) ==
    LET keep == SelectSeq([i \in DOMAIN decls |-> i],
                          LAMBDA i : \A j \in 1..(i-1) : decls[j] # decls[i])
    IN  [k \in DOMAIN keep |->
            [MethodName |-> decls[keep[k]].Name,
             InputType  |-> shortTypeName(b, decls[keep[k]].InputType),
             OutputType |-> shortTypeName(b, decls[keep[k]].OutputType)]]

\* the loop that fills methods
BuildMethods(b, decls) ==
    [i \in 1..Len(decls) |->
        [MethodName |-> decls[i].Name,
         InputType  |-> shortTypeName(b, decls[i].InputType),
         OutputType |-> shortTypeName(b, decls[i].OutputType)]]

\* baseName := strings.TrimSuffix(filename, filepath.Ext(filename))
BaseName(filename) == TrimSuffix(filename, Ext(filename))

BuildServiceInfo(b, fd, svc) ==
    [CsharpNamespace |-> getCsharpNamespace(fd),
     ServiceName     |-> svc.Name,
     Methods         |-> BuildMethods(b, svc.Method),
     AllMessages     |-> collectAllMessages(fd),
     ProtoBaseName   |-> BaseName(fd.Name)]

\* a variant that replaces the diagnostic instead of extending it
appendErrorOverwrite(r, msg) == [r EXCEPT !.Error = [set |-> TRUE, val |-> msg]]

\* appendError
appendError(r, msg) ==
    IF ~r.Error.set
    THEN [r EXCEPT !.Error = [set |-> TRUE, val |-> msg]]
    ELSE [r EXCEPT !.Error = [set |-> TRUE, val |-> r.Error.val \o <<"\n">> \o msg]]

\* renderTemplate: tmpl.Execute either fills the builder or returns an error.
\* The templates are embedded files; which data make Execute fail is not
\* decided here, so both results are possible while canFail allows it.
Render(tmpl, data) == [tmpl |-> tmpl, data |-> data]

ErrText(tmpl, data) == <<"template", tmpl>> \o data.ProtoBaseName \o <<data.ServiceName>>

renderTemplate(tmpl, data, canFail) ==
    {[failed |-> FALSE, out |-> Render(tmpl, data), err |-> <<>>]}
    \cup (IF canFail
          THEN {[failed |-> TRUE, out |-> Render("", data), err |-> ErrText(tmpl, data)]}
          ELSE {})

\* fmt.Sprintf("%s_%sClient.cs", baseName, svcName) and its three siblings
FileName(baseName, svcName, suffix, ext) == baseName \o <<"_", svcName, suffix, ".", ext>>

\* a variant whose error branch throws away the files gathered so far
TargetBlockDropsFiles(r, res, fileName) ==
    IF res.failed
    THEN [appendError(r, res.err) EXCEPT !.File = <<>>]
    ELSE [r EXCEPT !.File = Append(@, [Name |-> fileName, Content |-> res.out])]

\* one "if genX { ... }" block of main: the error branch or the file branch
TargetBlock(r, res, fileName) ==
    IF res.failed
    THEN appendError(r, res.err)
    ELSE [r EXCEPT !.File = Append(@, [Name |-> fileName, Content |-> res.out])]

\* a variant that prints and returns: main() goes on with the next statement
failReturns(next) == [pc |-> next, exitCode |-> "none"]

\* fail: print to stderr and os.Exit(1); the statement after the call is not reached
fail(next) == [pc |-> "exited", exitCode |-> "1"]

-----------------------------------------------------------------------------
(* Zero values *)

EmptyReq == [Parameter |-> <<>>, FileToGenerate |-> {}, ProtoFile |-> <<>>]

EmptyResp == [File |-> <<>>, Error |-> [set |-> FALSE, val |-> <<>>]]

NoGen == [cs_client |-> FALSE, cs_server |-> FALSE, js_client |-> FALSE, js_server |-> FALSE]

NoService ==
    [CsharpNamespace |-> <<>>, ServiceName |-> "", Methods |-> <<>>,
     AllMessages |-> <<>>, ProtoBaseName |-> <<>>]

NoOptions == [present |-> FALSE, csharp_namespace |-> <<>>]

Builds == {"main.go", "part_002"}

-----------------------------------------------------------------------------
(* main() *)

Failures == Cardinality({i \in DOMAIN renderLog : renderLog[i].failed})

CurFile == req.ProtoFile[fi]

CurService == CurFile.Service[si]

\* io.ReadAll(os.Stdin)
ReadStdin ==
    /\ pc = "start"
    /\ \/ /\ stdin.kind = "ioerror"
          /\ pc' = fail("unmarshal").pc
          /\ exitCode' = fail("unmarshal").exitCode
       \/ /\ stdin.kind # "ioerror"
          /\ pc' = "unmarshal"
          /\ UNCHANGED exitCode
    /\ UNCHANGED <<build, stdin, req, gen, resp, fi, si, svcData, stdout, renderLog>>
    /\ UNCHANGED chunkVars

\* proto.Unmarshal(reqBuf, &req)
Unmarshal ==
    /\ pc = "unmarshal"
    /\ \/ /\ stdin.kind = "malformed"
          /\ pc' = fail("params").pc
          /\ exitCode' = fail("params").exitCode
          /\ UNCHANGED req
       \/ /\ stdin.kind # "malformed"
          /\ req' = stdin.req
          /\ pc' = "params"
          /\ UNCHANGED exitCode
    /\ UNCHANGED <<build, stdin, gen, resp, fi, si, svcData, stdout, renderLog>>
    /\ UNCHANGED chunkVars

\* genCSClient := (params["cs_client"] == "true") and its three siblings
GenFlags(params) ==
    [cs_client |-> (MapGet(params, "cs_client") = "true"),
     cs_server |-> (MapGet(params, "cs_server") = "true"),
     js_client |-> (MapGet(params, "js_client") = "true"),
     js_server |-> (MapGet(params, "js_server") = "true")]

\* the parameter is parsed, the flags are read, the response starts empty
ParseParams ==
    /\ pc = "params"
    /\ gen' = GenFlags(parseGeneratorParams(req.Parameter))
    /\ resp' = EmptyResp
    /\ fi' = 1
    /\ pc' = "files"
    /\ UNCHANGED <<build, stdin, exitCode, req, si, svcData, stdout, renderLog>>
    /\ UNCHANGED chunkVars

\* for _, fileDesc := range req.ProtoFile, with the file_to_generate filter
NextFile ==
    /\ pc = "files"
    /\ \/ /\ fi > Len(req.ProtoFile)
          /\ pc' = "marshal"
          /\ UNCHANGED <<fi, si>>
       \/ /\ fi <= Len(req.ProtoFile)
          /\ ~contains(req.FileToGenerate, CurFile.Name)
          /\ fi' = fi + 1
          /\ UNCHANGED <<pc, si>>
       \/ /\ fi <= Len(req.ProtoFile)
          /\ contains(req.FileToGenerate, CurFile.Name)
          /\ si' = 1
          /\ pc' = "services"
          /\ UNCHANGED fi
    /\ UNCHANGED <<build, stdin, exitCode, req, gen, resp, svcData, stdout, renderLog>>
    /\ UNCHANGED chunkVars

\* for _, svc := range fileDesc.GetService(): build svcData
NextService ==
    /\ pc = "services"
    /\ \/ /\ si > Len(CurFile.Service)
          /\ fi' = fi + 1
          /\ pc' = "files"
          /\ UNCHANGED svcData
       \/ /\ si <= Len(CurFile.Service)
          /\ svcData' = BuildServiceInfo(build, CurFile, CurService)
          /\ pc' = "csClient"
          /\ UNCHANGED fi
    /\ UNCHANGED <<build, stdin, exitCode, req, gen, resp, si, stdout, renderLog>>
    /\ UNCHANGED chunkVars

\* one target block: skipped when its flag is off
RenderTarget(at, flag, tmpl, suffix, ext, next) ==
    /\ pc = at
    /\ IF flag
       THEN \E res \in renderTemplate(tmpl, svcData, Failures < MaxFailures) :
              /\ resp' = TargetBlock(resp, res,
                            FileName(BaseName(CurFile.Name), CurService.Name, suffix, ext))
              /\ renderLog' = Append(renderLog,
                    [file |-> fi, svc |-> si, tmpl |-> tmpl, data |-> svcData,
                     failed |-> res.failed, err |-> res.err])
       ELSE UNCHANGED <<resp, renderLog>>
    /\ pc' = next

RenderCSClient ==
    /\ RenderTarget("csClient", gen.cs_client, "csharp_client", "Client", "cs", "csServer")
    /\ UNCHANGED <<build, stdin, exitCode, req, gen, fi, si, svcData, stdout>>
    /\ UNCHANGED chunkVars

RenderCSServer ==
    /\ RenderTarget("csServer", gen.cs_server, "csharp_server", "Base", "cs", "jsClient")
    /\ UNCHANGED <<build, stdin, exitCode, req, gen, fi, si, svcData, stdout>>
    /\ UNCHANGED chunkVars

RenderJSClient ==
    /\ RenderTarget("jsClient", gen.js_client, "js_client", "Client", "js", "jsServer")
    /\ UNCHANGED <<build, stdin, exitCode, req, gen, fi, si, svcData, stdout>>
    /\ UNCHANGED chunkVars

\* the last block of the loop body: on to the next service
RenderJSServer ==
    /\ RenderTarget("jsServer", gen.js_server, "js_server", "Base", "js", "services")
    /\ si' = si + 1
    /\ UNCHANGED <<build, stdin, exitCode, req, gen, fi, svcData, stdout>>
    /\ UNCHANGED chunkVars

\* proto.Marshal(resp) and os.Stdout.Write.  The response holds only optional
\* proto2 strings, so Marshal has no failing case.
WriteResponse ==
    /\ pc = "marshal"
    /\ stdout' = [written |-> TRUE, resp |-> resp]
    /\ exitCode' = "0"
    /\ pc' = "done"
    /\ UNCHANGED <<build, stdin, req, gen, resp, fi, si, svcData, renderLog>>
    /\ UNCHANGED chunkVars

Next ==
    \/ ReadStdin
    \/ Unmarshal
    \/ ParseParams
    \/ NextFile
    \/ NextService
    \/ RenderCSClient
    \/ RenderCSServer
    \/ RenderJSClient
    \/ RenderJSServer
    \/ WriteResponse

-----------------------------------------------------------------------------
(* The chunking contract of RpcEnvelope.chunkInfo.  The generated stubs and  *)
(* their runtime are not part of the sources at hand; sender and receiver    *)
(* follow the specification's "Sending an oversized message" and "Receiving" *)

Bytes == {0, 1}

ChunkSetId == "set-1"

Min(a, b) == IF a < b THEN a ELSE b

\* totalChunks = ceil(|P| / chunkSize)
TotalChunks(P, C) == (Len(P) + C - 1) \div C

\* the envelopes of one send: one per piece, sharing chunkSetId
SplitPayload(P, C) ==
    {[chunkSetId   |-> ChunkSetId,
      chunkIndex   |-> i,
      totalChunks  |-> TotalChunks(P, C),
      originalSize |-> Len(P),
      payload      |-> SubSeq(P, i * C + 1, Min((i + 1) * C, Len(P)))]
        : i \in 0..(TotalChunks(P, C) - 1)}

\* a variant that trusts the order of arrival instead of chunkIndex
StoreChunkInArrivalOrder(chunks, e) ==
    [i \in DOMAIN chunks \cup {Cardinality(DOMAIN chunks)} |->
        IF i = Cardinality(DOMAIN chunks) THEN e.payload ELSE chunks[i]]

\* store the chunk at its index in the set's buffer
StoreChunk(chunks, e) ==
    [i \in DOMAIN chunks \cup {e.chunkIndex} |->
        IF i = e.chunkIndex THEN e.payload ELSE chunks[i]]

\* concatenate the pieces in index order
RECURSIVE Concatenate(_, _, _)
Concatenate(chunks, i, n) ==
    IF i >= n THEN <<>> ELSE chunks[i] \o Concatenate(chunks, i + 1, n)

NoResult == [status |-> "none", val |-> <<>>]

ChunkIdle ==
    /\ payload = <<>>
    /\ chunkSize = 1
    /\ phase = "idle"
    /\ inflight = {}
    /\ buffer = [k \in {} |-> <<>>]
    /\ reassembled = NoResult
    /\ arrivals = <<>>

SendChunked ==
    /\ phase = "idle"
    /\ inflight' = SplitPayload(payload, chunkSize)
    /\ phase' = "sent"
    /\ UNCHANGED <<payload, chunkSize, buffer, reassembled, arrivals>>
    /\ UNCHANGED genVars

\* the inbound-message callback, for any envelope still in flight
ReceiveChunk ==
    /\ phase = "sent"
    /\ \E e \in inflight :
         LET old == IF e.chunkSetId \in DOMAIN buffer
                    THEN buffer[e.chunkSetId]
                    ELSE [i \in {} |-> <<>>]
             new == StoreChunk(old, e)
             whole == Concatenate(new, 0, e.totalChunks)
         IN  /\ inflight' = inflight \ {e}
             /\ arrivals' = Append(arrivals, e.chunkIndex)
             /\ IF e.chunkIndex \in DOMAIN old /\ old[e.chunkIndex] # e.payload
                THEN \* ProtocolCorruption for this chunk set only
                     /\ reassembled' = [status |-> "corrupt", val |-> <<>>]
                     /\ buffer' = [k \in DOMAIN buffer \ {e.chunkSetId} |-> buffer[k]]
                     /\ phase' = "complete"
                ELSE IF DOMAIN new = 0..(e.totalChunks - 1)
                THEN /\ reassembled' =
                            IF Len(whole) = e.originalSize
                            THEN [status |-> "ok", val |-> whole]
                            ELSE [status |-> "corrupt", val |-> <<>>]
                     /\ buffer' = [k \in DOMAIN buffer \ {e.chunkSetId} |-> buffer[k]]
                     /\ phase' = "complete"
                ELSE /\ buffer' = [k \in DOMAIN buffer \cup {e.chunkSetId} |->
                                      IF k = e.chunkSetId THEN new ELSE buffer[k]]
                     /\ UNCHANGED <<reassembled, phase>>
    /\ UNCHANGED <<payload, chunkSize>>
    /\ UNCHANGED genVars

NextChunk ==
    \/ SendChunked
    \/ ReceiveChunk

-----------------------------------------------------------------------------
(* Inputs *)

\* a parameter string: the tokens joined by ","
RECURSIVE JoinTokens(_)
JoinTokens(ts) ==
    IF ts = <<>> THEN <<>>
    ELSE IF Len(ts) = 1 THEN <<ts[1]>>
    ELSE <<ts[1], ",">> \o JoinTokens(Tail(ts))

PingMethod ==
    [Name |-> "Ping",
     InputType  |-> <<".", "hello", ".", "PingRequest">>,
     OutputType |-> <<".", "hello", ".", "PingReply">>]

SendMethod ==
    [Name |-> "Send", InputType |-> <<"ChatMessage">>, OutputType |-> <<"ChatAck">>]

EchoService == [Name |-> "Echo", Method |-> <<PingMethod>>]

ChatService == [Name |-> "Chat", Method |-> <<SendMethod, PingMethod>>]

HelloFile ==
    [Name |-> <<"hello", ".", "proto">>,
     Package |-> <<"a", "b">>,
     Options |-> NoOptions,
     Service |-> <<EchoService>>,
     MessageType |-> <<"PingRequest", "PingReply">>]

ChatFile ==
    [Name |-> <<"api", "/", "chat", ".", "v1", ".", "proto">>,
     Package |-> <<>>,
     Options |-> [present |-> TRUE, csharp_namespace |-> <<"My", ".", "Chat">>],
     Service |-> <<ChatService, EchoService>>,
     MessageType |-> <<"ChatMessage", "ChatAck">>]

BareFile ==
    [Name |-> <<"v1", ".", "x", "/", "bare">>,
     Package |-> <<>>,
     Options |-> NoOptions,
     Service |-> <<EchoService>>,
     MessageType |-> <<>>]

Catalog == {HelloFile, ChatFile, BareFile}

IsInjective(s) == \A i, j \in DOMAIN s : s[i] = s[j] => i = j

FileLists(files, n) == {s \in SeqsUpTo(files, n) : IsInjective(s)}

\* every request over the given file lists and parameter strings; protoc lists
\* in file_to_generate only files it also passes in proto_file
Requests(lists, paramStrs) ==
    UNION {{[Parameter |-> p, FileToGenerate |-> g, ProtoFile |-> fs]
              : g \in SUBSET {fs[i].Name : i \in DOMAIN fs}, p \in paramStrs}
           : fs \in lists}

Stdins(reqs) ==
    {[kind |-> "ioerror", req |-> EmptyReq], [kind |-> "malformed", req |-> EmptyReq]}
    \cup {[kind |-> "ok", req |-> r] : r \in reqs}

InitGen(reqs) ==
    /\ build \in Builds
    /\ stdin \in Stdins(reqs)
    /\ pc = "start"
    /\ exitCode = "none"
    /\ req = EmptyReq
    /\ gen = NoGen
    /\ resp = EmptyResp
    /\ fi = 0
    /\ si = 0
    /\ svcData = NoService
    /\ stdout = [written |-> FALSE, resp |-> EmptyResp]
    /\ renderLog = <<>>
    /\ ChunkIdle

Tokens == {"cs_client", "cs_server", "js_client", "js_server"}

TokenOrder == <<"cs_client", "cs_server", "js_client", "js_server">>

\* the option strings of the README's usage examples, the empty string, and
\* a client of one language with a server of the other
ReadmeParams ==
    {JoinTokens(<<t>>) : t \in Tokens \cup {"ts_server", "ts_client"}}
    \cup {<<>>,
          JoinTokens(<<"cs_client", "js_server">>),
          JoinTokens(TokenOrder),
          JoinTokens(TokenOrder \o <<"ts_client", "ts_server">>)}

Init == InitGen(Requests(FileLists(Catalog, MaxFiles), ReadmeParams))

Spec == Init /\ [][Next]_vars

-----------------------------------------------------------------------------
(* Vocabulary of the claims, stated from the request and the render history *)

Spaces == {" ", "\t"}

\* token t is one of the comma-separated fields of p, up to surrounding blanks
TokenPresent(p, t) ==
    \E i, j \in DOMAIN p :
        /\ i <= j
        /\ (i = 1 \/ p[i-1] = ",")
        /\ (j = Len(p) \/ p[j+1] = ",")
        /\ \E k \in i..j :
              /\ p[k] = t
              /\ \A m \in (i..j) \ {k} : p[m] \in Spaces

\* the four targets in the order main() visits them
TargetTable ==
    <<[token |-> "cs_client", tmpl |-> "csharp_client", role |-> "Client", ext |-> "cs"],
      [token |-> "cs_server", tmpl |-> "csharp_server", role |-> "Base",   ext |-> "cs"],
      [token |-> "js_client", tmpl |-> "js_client",     role |-> "Client", ext |-> "js"],
      [token |-> "js_server", tmpl |-> "js_server",     role |-> "Base",   ext |-> "js"]>>

\* the schema file name with its extension removed
StripExt(n) ==
    IF \E i \in DOMAIN n : n[i] = "." /\ \A j \in (i+1)..Len(n) : n[j] \notin {"/", "."}
    THEN LET i == CHOOSE k \in DOMAIN n :
                     n[k] = "." /\ \A j \in (k+1)..Len(n) : n[j] \notin {"/", "."}
         IN  SubSeq(n, 1, i - 1)
    ELSE n

\* (file index, service index, target index) of the request r whose file is
\* listed in file_to_generate and whose target is in the set act of tokens
Triples(r, act) ==
    {<<f, s, t>> \in (DOMAIN r.ProtoFile) \X (1..4) \X (DOMAIN TargetTable) :
        /\ r.ProtoFile[f].Name \in r.FileToGenerate
        /\ s \in DOMAIN r.ProtoFile[f].Service
        /\ TargetTable[t].token \in act}

ActiveTokens(p) == {t \in Tokens : TokenPresent(p, t)}

FailedAt(f, s, t) ==
    \E i \in DOMAIN renderLog :
        /\ renderLog[i].file = f /\ renderLog[i].svc = s
        /\ renderLog[i].tmpl = TargetTable[t].tmpl
        /\ renderLog[i].failed

SucceededAt(f, s, t) ==
    \E i \in DOMAIN renderLog :
        /\ renderLog[i].file = f /\ renderLog[i].svc = s
        /\ renderLog[i].tmpl = TargetTable[t].tmpl
        /\ ~renderLog[i].failed

ExpectedName(r, f, s, t) ==
    StripExt(r.ProtoFile[f].Name)
        \o <<"_", r.ProtoFile[f].Service[s].Name, TargetTable[t].role, ".", TargetTable[t].ext>>

FilesNamed(files, n) == {i \in DOMAIN files : files[i].Name = n}

Written == pc = "done" /\ stdout.written

RenderLabels == {"csClient", "csServer", "jsClient", "jsServer"}

-----------------------------------------------------------------------------
(* C1: the response's file list holds exactly one file, named                *)
(* <baseName>_<Service>Client.<ext> or <baseName>_<Service>Base.<ext>, for    *)
(* every (listed schema file, service, activated target) whose rendering     *)
(* succeeded, and no other file; unlisted schema files contribute nothing.   *)
C1_ExactlyTheRenderedFiles ==
    Written =>
        LET files == stdout.resp.File
            good == {tr \in Triples(req, ActiveTokens(req.Parameter)) :
                        ~FailedAt(tr[1], tr[2], tr[3])}
        IN  /\ Len(files) = Cardinality(good)
            /\ \A tr \in good :
                  Cardinality(FilesNamed(files, ExpectedName(req, tr[1], tr[2], tr[3]))) = 1
            /\ \A i \in DOMAIN files :
                  \E tr \in good : files[i].Name = ExpectedName(req, tr[1], tr[2], tr[3])

\* one listed file with the one service Echo, a client of one language and a
\* server of the other, beside a schema file that is not listed: two files
C1_Witness ==
    /\ Written
    /\ Len(req.ProtoFile) = 2
    /\ req.FileToGenerate = {HelloFile.Name}
    /\ ActiveTokens(req.Parameter) = {"cs_client", "js_server"}
    /\ Failures = 0
    /\ Len(stdout.resp.File) = 2
    /\ stdout.resp.File[1].Name = <<"hello", "_", "Echo", "Client", ".", "cs">>
    /\ stdout.resp.File[2].Name = <<"hello", "_", "Echo", "Base", ".", "js">>

-----------------------------------------------------------------------------
(* C2: a failed rendering contributes no file and suppresses nothing: every  *)
(* other rendering of the run that succeeded has its file in the response,   *)
(* every listed (service, activated target) pair is still rendered, and a    *)
(* run on a decodable request never aborts: after a failure main() is at the *)
(* next target, service or file, or at the write of the response.            *)
C2_FailureSuppressesNothing ==
    /\ (stdin.kind = "ok" => pc # "exited" /\ exitCode # "1")
    /\ (Failures > 0 /\ pc # "done" => pc \in RenderLabels \cup {"services", "files", "marshal"})
    /\ (pc = "done" => stdout.written)
    /\ Written =>
          LET files == stdout.resp.File
              all == Triples(req, ActiveTokens(req.Parameter))
          IN  /\ \A tr \in all : FailedAt(tr[1], tr[2], tr[3]) \/ SucceededAt(tr[1], tr[2], tr[3])
              /\ \A tr \in all :
                    LET n == ExpectedName(req, tr[1], tr[2], tr[3])
                    IN  IF FailedAt(tr[1], tr[2], tr[3])
                        THEN FilesNamed(files, n) = {}
                        ELSE \E i \in FilesNamed(files, n) :
                                files[i].Content.tmpl = TargetTable[tr[3]].tmpl

\* a response written after a failure that has files rendered both before and
\* after the failed rendering
C2_Witness ==
    /\ Written
    /\ \E i, j, k \in DOMAIN renderLog :
          /\ i < j /\ j < k
          /\ ~renderLog[i].failed /\ renderLog[j].failed /\ ~renderLog[k].failed
    /\ Len(stdout.resp.File) = Len(renderLog) - Failures
    /\ Failures >= 1

-----------------------------------------------------------------------------
(* C3: when the request cannot be read or cannot be decoded, the process     *)
(* exits with status 1, nothing is written to standard output, no schema     *)
(* file is visited and no template is rendered.                              *)
C3_BadInputIsFatal ==
    stdin.kind # "ok" =>
        /\ ~stdout.written
        /\ renderLog = <<>>
        /\ fi = 0
        /\ resp = EmptyResp
        /\ pc \in {"start", "unmarshal", "exited"}
        /\ (pc = "exited" <=> exitCode = "1")
        /\ exitCode # "0"

C3_Witness ==
    /\ stdin.kind = "malformed"
    /\ pc = "exited"
    /\ exitCode = "1"
    /\ ~stdout.written

-----------------------------------------------------------------------------
(* C7: the option tokens ts_server and ts_client make the response hold a    *)
(* TypeScript server (client) stub for every service of every listed file.   *)
C7_TypeScriptTokensGenerate ==
    Written =>
        \A f \in DOMAIN req.ProtoFile :
            \A s \in DOMAIN req.ProtoFile[f].Service :
                LET fd == req.ProtoFile[f]
                    stub(role) == StripExt(fd.Name) \o <<"_", fd.Service[s].Name, role, ".", "ts">>
                IN  fd.Name \in req.FileToGenerate =>
                       /\ TokenPresent(req.Parameter, "ts_server") =>
                             FilesNamed(stdout.resp.File, stub("Base")) # {}
                       /\ TokenPresent(req.Parameter, "ts_client") =>
                             FilesNamed(stdout.resp.File, stub("Client")) # {}

-----------------------------------------------------------------------------
(* C10: the diagnostic is set exactly when a rendering has failed; it is the *)
(* failures' messages, each once, joined by newlines in the order the        *)
(* failures occurred, which is file order, then service order, then the      *)
(* order C# client, C# server, JS client, JS server.                         *)
FailedEntries == SelectSeq(renderLog, LAMBDA e : e.failed)

RECURSIVE JoinLines(_)
JoinLines(es) ==
    IF es = <<>> THEN <<>>
    ELSE IF Len(es) = 1 THEN es[1].err
    ELSE es[1].err \o <<"\n">> \o JoinLines(Tail(es))

TargetRank(tmpl) == CHOOSE t \in DOMAIN TargetTable : TargetTable[t].tmpl = tmpl

LogBefore(a, b) ==
    \/ a.file < b.file
    \/ a.file = b.file /\ a.svc < b.svc
    \/ a.file = b.file /\ a.svc = b.svc /\ TargetRank(a.tmpl) < TargetRank(b.tmpl)

\* the diagnostic read back line by line
LinesOf(r) == IF r.Error.set THEN Split(r.Error.val, "\n") ELSE <<>>

\* C10: the diagnostic is the failed renderings' messages, newline-joined, in order
C10_DiagnosticIsTheFailuresInOrder ==
    /\ \A i \in DOMAIN renderLog :
          i > 1 => LogBefore(renderLog[i-1], renderLog[i])
    /\ resp.Error.set <=> (Failures > 0)
    /\ resp.Error.val = JoinLines(FailedEntries)
    /\ Written =>
          /\ stdout.resp.Error = resp.Error
          /\ LinesOf(stdout.resp) = [i \in DOMAIN FailedEntries |-> FailedEntries[i].err]

C10_Witness ==
    /\ Written
    /\ Len(FailedEntries) = 2
    /\ FailedEntries[1].err # FailedEntries[2].err
    /\ stdout.resp.Error.set
    /\ stdout.resp.Error.val = FailedEntries[1].err \o <<"\n">> \o FailedEntries[2].err

-----------------------------------------------------------------------------
(* Inputs for the parameter string: every string of up to MaxParamLen atoms *)

ParamAtoms == {",", " ", "cs_client", "cs_server", "js_client", "js_server", "x"}

InitParams == InitGen(Requests({<<HelloFile>>}, SeqsUpTo(ParamAtoms, MaxParamLen)))

SpecParams == InitParams /\ [][Next]_vars

\* the members of a set of triples in the order main() visits them
TripleLess(a, b) ==
    \/ a[1] < b[1]
    \/ a[1] = b[1] /\ a[2] < b[2]
    \/ a[1] = b[1] /\ a[2] = b[2] /\ a[3] < b[3]

RECURSIVE InOrder(_)
InOrder(S) ==
    IF S = {} THEN <<>>
    ELSE LET m == CHOOSE x \in S : \A y \in S \ {x} : TripleLess(x, y)
         IN  <<m>> \o InOrder(S \ {m})

\* the file list that a set act of recognized tokens stands for, given the
\* schema files of r and which renderings failed: no other part of the
\* parameter string enters
FilesFor(r, act) ==
    LET good == InOrder({tr \in Triples(r, act) : ~FailedAt(tr[1], tr[2], tr[3])})
    IN  [i \in DOMAIN good |->
            LET f == good[i][1]
                s == good[i][2]
                t == good[i][3]
            IN  [Name |-> ExpectedName(r, f, s, t),
                 Content |-> Render(TargetTable[t].tmpl,
                                BuildServiceInfo(build, r.ProtoFile[f], r.ProtoFile[f].Service[s]))]]

-----------------------------------------------------------------------------
(* C4: the response is decided by the set of recognized tokens among the     *)
(* comma-separated, blank-trimmed fields of the parameter string: order,     *)
(* repetition, blanks, empty fields and unrecognized tokens change nothing,  *)
(* never cause an error, and no recognized token means no file and no        *)
(* diagnostic.                                                               *)
C4_OnlyTheRecognizedTokenSetMatters ==
    /\ (stdin.kind = "ok" => pc # "exited")
    /\ (pc \in RenderLabels \cup {"files", "services", "marshal", "done"} =>
           \A t \in Tokens : gen[t] <=> t \in ActiveTokens(req.Parameter))
    /\ Written =>
          /\ stdout.resp.File = FilesFor(req, ActiveTokens(req.Parameter))
          /\ (ActiveTokens(req.Parameter) = {} =>
                 stdout.resp.File = <<>> /\ ~stdout.resp.Error.set)

\* the tokens in the other order, behind a blank: the same two files in the
\* fixed order
C4_Witness ==
    /\ Written
    /\ req.Parameter \in {<<"js_server", ",", "cs_client">>, <<" ", "js_server">>}
    /\ req.FileToGenerate # {}
    /\ Failures = 0
    /\ Len(stdout.resp.File) >= 1
    /\ stdout.resp.File[Len(stdout.resp.File)].Name = <<"hello", "_", "Echo", "Base", ".", "js">>
    /\ (Len(stdout.resp.File) = 2 =>
           stdout.resp.File[1].Name = <<"hello", "_", "Echo", "Client", ".", "cs">>)

-----------------------------------------------------------------------------
(* Inputs for the service model: one schema file whose package and options, *)
(* or whose method's type names, or whose method list vary                   *)

PkgChars == {"a", "B", "_", ".", "1"}

OptionChoices ==
    {NoOptions,
     [present |-> TRUE, csharp_namespace |-> <<>>],
     [present |-> TRUE, csharp_namespace |-> <<"N", "s">>]}

TypeAtoms == {".", "pkg", "Msg"}

ReplyTypes == {<<".", "pkg", ".", "sub", ".", "Reply">>, <<"Reply">>}

NamespaceFiles ==
    {[HelloFile EXCEPT !.Package = p, !.Options = o]
        : p \in SeqsUpTo(PkgChars, MaxPkgLen), o \in OptionChoices}

TypeFiles ==
    {[HelloFile EXCEPT !.Service =
        <<[Name |-> "Echo",
           Method |-> <<[Name |-> "Ping", InputType |-> i, OutputType |-> o]>>]>>]
        : i \in SeqsUpTo(TypeAtoms, MaxTypeLen), o \in ReplyTypes}

MethodDecls ==
    {[Name |-> n, InputType |-> i, OutputType |-> <<"Reply">>]
        : n \in {"Ping", "Pong"}, i \in {<<".", "pkg", ".", "Msg">>, <<"Msg">>}}

MethodFiles ==
    {[HelloFile EXCEPT !.Service = <<[Name |-> "Echo", Method |-> ms]>>]
        : ms \in SeqsUpTo(MethodDecls, MaxMethods)}

InitModel ==
    InitGen(Requests({<<fd>> : fd \in NamespaceFiles \cup TypeFiles \cup MethodFiles},
                     {JoinTokens(<<"cs_client", "js_server">>)}))

SpecModel == InitModel /\ [][Next]_vars

\* svcData holds the model of the current service
AtService == pc \in RenderLabels

-----------------------------------------------------------------------------
(* C5: every method's input and output type name in the model is the last    *)
(* dot-separated segment of the schema's type name: no leading dot, no       *)
(* package prefix.                                                           *)
LastSegment(full) ==
    LET dots == {i \in DOMAIN full : full[i] = "."}
    IN  IF dots = {} THEN full
        ELSE LET d == CHOOSE i \in dots : \A j \in dots : j <= i
             IN  SubSeq(full, d + 1, Len(full))

\* C5: each model type name is the last segment of the declared type name
C5_TypeNamesAreUnqualified ==
    AtService =>
        \A i \in DOMAIN svcData.Methods :
            /\ i \in DOMAIN CurService.Method
            /\ svcData.Methods[i].InputType = LastSegment(CurService.Method[i].InputType)
            /\ svcData.Methods[i].OutputType = LastSegment(CurService.Method[i].OutputType)
            /\ "." \notin Range(svcData.Methods[i].InputType)
            /\ "." \notin Range(svcData.Methods[i].OutputType)

-----------------------------------------------------------------------------
(* C6: the namespace of a service model is the file's explicit namespace     *)
(* option when that is non-empty, even beside a package; else the            *)
(* capitalized package identifier when that is non-empty; else               *)
(* "DefaultNamespace".                                                       *)
UpperOf(c) == IF c = "a" THEN "A" ELSE IF c = "b" THEN "B" ELSE c

Capitalized(ns, pkg) ==
    /\ ns = Title(pkg)
    /\ Len(ns) = Len(pkg)
    /\ ns[1] = UpperOf(pkg[1])
    /\ \A i \in DOMAIN pkg : ns[i] \in {pkg[i], UpperOf(pkg[i])}

\* C6: explicit option, else capitalized package, else "DefaultNamespace"
C6_NamespaceResolutionOrder ==
    AtService =>
        LET fd == CurFile
            explicit == fd.Options.present /\ fd.Options.csharp_namespace # <<>>
            ns == svcData.CsharpNamespace
        IN  /\ explicit => ns = fd.Options.csharp_namespace
            /\ ~explicit /\ fd.Package # <<>> => Capitalized(ns, fd.Package)
            /\ ~explicit /\ fd.Package = <<>> => ns = <<"DefaultNamespace">>
            /\ ns = <<"DefaultNamespace">> => ~explicit /\ fd.Package = <<>>

\* the explicit option beside a package of two words
C6_Witness ==
    /\ pc = "jsServer"
    /\ CurFile.Options.present
    /\ CurFile.Options.csharp_namespace = <<"N", "s">>
    /\ CurFile.Package = <<"a", ".", "a">>
    /\ svcData.CsharpNamespace = <<"N", "s">>
    /\ Len(renderLog) = 1

-----------------------------------------------------------------------------
(* C8: the model's method list is the service's declared methods in          *)
(* declaration order, none dropped, reordered or merged, and every renderer  *)
(* of the service is handed that same model.                                 *)
C8_MethodsInDeclarationOrder ==
    /\ AtService =>
          /\ Len(svcData.Methods) = Len(CurService.Method)
          /\ \A i \in DOMAIN CurService.Method :
                /\ svcData.Methods[i].MethodName = CurService.Method[i].Name
                /\ svcData.Methods[i].InputType =
                      shortTypeName(build, CurService.Method[i].InputType)
                /\ svcData.Methods[i].OutputType =
                      shortTypeName(build, CurService.Method[i].OutputType)
    /\ \A i \in DOMAIN renderLog :
          LET e == renderLog[i]
              decl == req.ProtoFile[e.file].Service[e.svc].Method
          IN  /\ [k \in DOMAIN e.data.Methods |-> e.data.Methods[k].MethodName]
                    = [k \in DOMAIN decl |-> decl[k].Name]
              /\ \A j \in DOMAIN renderLog :
                    renderLog[j].file = e.file /\ renderLog[j].svc = e.svc
                        => renderLog[j].data = e.data
    /\ \A i \in DOMAIN resp.File :
          \E j \in DOMAIN renderLog :
              /\ ~renderLog[j].failed
              /\ resp.File[i].Content = Render(renderLog[j].tmpl, renderLog[j].data)

\* the same method declared twice: both entries reach both renderers
C8_Witness ==
    /\ Written
    /\ Len(renderLog) = 2
    /\ Len(stdout.resp.File) = 2
    /\ LET decl == req.ProtoFile[1].Service[1].Method
       IN  /\ Len(decl) = 2
           /\ decl[1] = decl[2]
           /\ Len(stdout.resp.File[1].Content.data.Methods) = 2
           /\ stdout.resp.File[1].Content.data = stdout.resp.File[2].Content.data

-----------------------------------------------------------------------------
(* Inputs for the chunking contract *)

GenIdle ==
    /\ build = "main.go"
    /\ stdin = [kind |-> "ioerror", req |-> EmptyReq]
    /\ pc = "start"
    /\ exitCode = "none"
    /\ req = EmptyReq
    /\ gen = NoGen
    /\ resp = EmptyResp
    /\ fi = 0
    /\ si = 0
    /\ svcData = NoService
    /\ stdout = [written |-> FALSE, resp |-> EmptyResp]
    /\ renderLog = <<>>

InitChunk ==
    /\ payload \in SeqsUpTo(Bytes, MaxPayload)
    /\ chunkSize \in 1..MaxChunk
    /\ phase = "idle"
    /\ inflight = {}
    /\ buffer = [k \in {} |-> <<>>]
    /\ reassembled = NoResult
    /\ arrivals = <<>>
    /\ GenIdle

SpecChunk == InitChunk /\ [][NextChunk]_vars

-----------------------------------------------------------------------------
(* C9: a payload split into ceil(|P|/C) chunks that carry one chunkSetId,    *)
(* the indices 0..totalChunks-1, totalChunks and originalSize = |P| is, in   *)
(* whatever order the chunks arrive, reassembled to exactly P, and the       *)
(* result passes the originalSize check.                                     *)
C9_ReassemblyIsOrderIndependent ==
    /\ \A e \in inflight :
          /\ e.chunkSetId = ChunkSetId
          /\ e.totalChunks * chunkSize >= Len(payload)
          /\ (e.totalChunks - 1) * chunkSize < Len(payload)
          /\ e.chunkIndex \in 0..(e.totalChunks - 1)
          /\ e.originalSize = Len(payload)
          /\ Len(e.payload) \in 1..chunkSize
    /\ (phase = "sent" =>
           Cardinality(inflight) + Len(arrivals) = TotalChunks(payload, chunkSize))
    /\ (phase = "sent" /\ inflight = {} => payload = <<>>)
    /\ (phase = "complete" =>
           /\ inflight = {}
           /\ Range(arrivals) = 0..(Len(arrivals) - 1)
           /\ reassembled.status = "ok"
           /\ reassembled.val = payload)
    /\ (reassembled.status # "none" => phase = "complete")

\* three chunks, the last one short, arriving out of order
C9_Witness ==
    /\ phase = "complete"
    /\ reassembled = [status |-> "ok", val |-> payload]
    /\ Len(arrivals) = 3
    /\ arrivals[1] > arrivals[2]
    /\ Len(payload) % chunkSize # 0
    /\ 0 \in Range(payload) /\ 1 \in Range(payload)

=============================================================================
